---------------------------- MODULE Spec2Model ----------------------------
(***************************************************************************)
(* A model of the distributed coordination core of liquid-ml:              *)
(*   - the registration Server (src/src/network/server.rs),                *)
(*   - the Client mesh bootstrap (src/src/network/client.rs),              *)
(*   - the Application facade (src/src/application.rs),                    *)
(*   - the key-value store of module kv, whose source file is not part of  *)
(*     the source tree at hand and is modelled from section 4.4 of the     *)
(*     specification.                                                      *)
(***************************************************************************)
EXTENDS Integers, Sequences, FiniteSets, TLC

(***************************************************************************)
(* Bounds of the model.                                                    *)
(***************************************************************************)
\* number of client processes that may start
NumProcs == 3

\* number of store operations the user tasks of the cluster may start
MaxOps == 3

NetNames == {"a", "b"}
\* the keys and values the user tasks use: Key::new(name, home), opaque bytes
Keys == {<<"x", 1>>}
Values == {"v1", "v2"}
Procs == 1..NumProcs

\* the listening address a process passes as my_addr
AddrOf(p) == <<"addr", p>>
ProcAt(a) == a[2]

None == [none |-> TRUE]

(***************************************************************************)
(* Maps (HashMap): functions with a finite domain.                         *)
(***************************************************************************)
EmptyMap == [k \in {} |-> None]
Insert(m, k, v) == [x \in (DOMAIN m) \cup {k} |-> IF x = k THEN v ELSE m[x]]
Size(m) == Cardinality(DOMAIN m)
Remove(m, k) == [x \in (DOMAIN m) \ {k} |-> m[x]]
Max(a, b) == IF a >= b THEN a ELSE b

VARIABLES
    \* ---- Server (server.rs:13-25)
    srv_msg_id,     \* Server.msg_id
    srv_directory,  \* Server.directory: network name -> (node id -> Connection)
    srv_backlog,    \* connections to the Server's listener, not yet accepted
    srv_link,       \* per process: the frames the Server has written to its sink
    \* ---- Client (client.rs:14-30), one per process
    pc,             \* where the process is in Client::new / accept_new_connections
    id,             \* Client.id
    msg_id,         \* Client.msg_id
    directory,      \* Client.directory: node id -> Connection
    listener,       \* whether Client.listener is bound
    todo,           \* reg.clients not yet connected to (the for loop of Client::new)
    hellos,         \* per process: connections to its listener, not yet accepted
    \* ---- history (not program state)
    assigned,       \* per process: the id the Server assigned to it
    reg_order,      \* per network name: the processes in registration order
    \* ---- Server::broadcast
    bcast,          \* the broadcast in progress: its network name and the ids left
    kill_sent,      \* history: the network names a Kill broadcast was started for
    \* ---- Application (application.rs:25-37), one per process
    ctrl_alive,     \* whether the inbound task of the Server link is running
    kill_permit,    \* the permit of Application.kill_notifier (tokio Notify)
    kill_fired,     \* history: the Kill handler has notified kill_notifier
    run_pc,         \* where the process is in Application::run
    \* ---- KVStore (specification 4.4), one per process
    data,           \* Key -> Value: locally homed values
    cache,          \* Key -> Value: values fetched from other nodes
    waiters,        \* Key -> the waiters parked on the key's notifier
    pending,        \* Key -> the caller awaiting the one-shot slot of an
                    \* in-flight remote get (1: the user task, 2: a second task)
    oneshot,        \* the bytes a completed one-shot slot hands to its caller
    tasks,          \* the detached tasks serving a remote Get
    links,          \* per ordered pair of processes: the frames in flight
    call,           \* the wait_and_get the user task is suspended in, if any
    res,            \* what the last store operation of the user task returned
    nops,           \* number of store operations started
    \* ---- history (not program state)
    put_val,        \* per key: the value of the put that succeeded on its home
    cross_handled,  \* the Value frames of cross-home puts the home node handled
    \* ---- failures
    srv_pc,         \* whether Server::accept_new_connections is looping or returned
    sink_ok,        \* per process: whether the Server's sink to it can be written
    bcast_log,      \* history: the snapshot, the sends attempted and the result
                    \* of the last Server::broadcast
    \* ---- the blob channel of the Application (application.rs:48)
    blobs,          \* per process: the blobs in the channel, not yet received
    blob_sent,      \* history, per ordered pair: the blobs send_blob sent
    blob_got,       \* history, per ordered pair: the blobs blob_receiver yielded
    \* ---- Application::pmap (application.rs:123-154), one call per process
    pmap_pc,        \* where the process is in pmap
    pmap_res,       \* the local variable res: the rower after the local map
    pmap_out,       \* what pmap returned
    \* ---- the framed codec (specification 4.1)
    codec_msg,      \* the Message handed to the encoder
    wire,           \* the bytes of its frame
    decoded,        \* what the decoder made of the bytes
    \* ---- a second task of the user code calling wait_and_get, one per process
    call2,          \* the wait_and_get the second task is suspended in, if any
    oneshot2,       \* the bytes its completed one-shot slot hands to it
    ret2            \* what its last wait_and_get returned

srvVars == <<srv_msg_id, srv_directory, srv_backlog, srv_link, reg_order>>
cliVars == <<pc, id, msg_id, directory, listener, todo, hellos, assigned>>
bootVars == <<srvVars, cliVars>>
runVars == <<bcast, kill_sent, ctrl_alive, kill_permit, kill_fired, run_pc>>

kvVars == <<data, cache, waiters, pending, oneshot, tasks, links, call, res, nops,
           put_val, cross_handled>>
faultVars == <<srv_pc, sink_ok, bcast_log>>
blobVars == <<blobs, blob_sent, blob_got>>
pmapVars == <<pmap_pc, pmap_res, pmap_out>>
codecVars == <<codec_msg, wire, decoded>>
callerVars == <<call2, oneshot2, ret2>>
extVars == <<faultVars, blobVars, pmapVars, codecVars, callerVars>>
otherVars == <<runVars, kvVars, extVars>>

vars == <<bootVars, runVars, kvVars, extVars>>

(***************************************************************************)
(* Server::new and the state of a process before Client::new.              *)
(***************************************************************************)
ServerNew ==
    /\ srv_msg_id = 0
    /\ srv_directory = EmptyMap
    /\ srv_backlog = <<>>
    /\ srv_link = [p \in Procs |-> <<>>]
    /\ reg_order = [n \in NetNames |-> <<>>]

ClientsNotStarted ==
    /\ pc = [p \in Procs |-> "start"]
    /\ id = [p \in Procs |-> 0]
    /\ msg_id = [p \in Procs |-> 0]
    /\ directory = [p \in Procs |-> EmptyMap]
    /\ listener = [p \in Procs |-> FALSE]
    /\ todo = [p \in Procs |-> {}]
    /\ hellos = [p \in Procs |-> <<>>]
    /\ assigned = [p \in Procs |-> 0]

\* the Application of a process before anything has run
AppsNotStarted ==
    /\ bcast = None
    /\ kill_sent = {}
    /\ ctrl_alive = [p \in Procs |-> TRUE]
    /\ kill_permit = [p \in Procs |-> FALSE]
    /\ kill_fired = [p \in Procs |-> FALSE]
    /\ run_pc = [p \in Procs |-> "user"]

\* no failure has happened and no broadcast has run
FaultsNone ==
    /\ srv_pc = "accepting"
    /\ sink_ok = [p \in Procs |-> TRUE]
    /\ bcast_log = None

\* mpsc::channel(2), application.rs:48
BlobCapacity == 2

BlobChannelNew ==
    /\ blobs = [p \in Procs |-> <<>>]
    /\ blob_sent = [e \in Procs \X Procs |-> <<>>]
    /\ blob_got = [e \in Procs \X Procs |-> <<>>]

PmapNotCalled ==
    /\ pmap_pc = [p \in Procs |-> "idle"]
    /\ pmap_res = [p \in Procs |-> {}]
    /\ pmap_out = [p \in Procs |-> None]

CodecIdle ==
    /\ codec_msg = None
    /\ wire = <<>>
    /\ decoded = None

SecondTaskIdle ==
    /\ call2 = [p \in Procs |-> None]
    /\ oneshot2 = [p \in Procs |-> "empty"]
    /\ ret2 = [p \in Procs |-> None]

ExtNew == FaultsNone /\ BlobChannelNew /\ PmapNotCalled /\ CodecIdle /\ SecondTaskIdle

NoKey == <<"", 0>>
NoResult == [flip |-> FALSE, op |-> "none", key |-> NoKey, arg |-> "none", after |-> FALSE,
             out |-> [ok |-> FALSE, val |-> "none"]]

\* the store of a process before any operation
KVStoreNew ==
    /\ data = [p \in Procs |-> EmptyMap]
    /\ cache = [p \in Procs |-> EmptyMap]
    /\ waiters = [p \in Procs |-> EmptyMap]
    /\ pending = [p \in Procs |-> EmptyMap]
    /\ oneshot = [p \in Procs |-> "empty"]
    /\ tasks = [p \in Procs |-> {}]
    /\ links = [e \in Procs \X Procs |-> <<>>]
    /\ call = [p \in Procs |-> None]
    /\ res = [p \in Procs |-> NoResult]
    /\ nops = 0
    /\ put_val = [k \in Keys |-> "none"]
    /\ cross_handled = {}

InitBoot == ServerNew /\ ClientsNotStarted /\ AppsNotStarted /\ KVStoreNew /\ ExtNew

(***************************************************************************)
(* Message::new(msg_id, sender_id, target_id, msg)                         *)
(***************************************************************************)
MessageZeroId(m, s, t, body) == [msg_id |-> 0, sender_id |-> s, target_id |-> t, msg |-> body]
Message(m, s, t, body) == [msg_id |-> m, sender_id |-> s, target_id |-> t, msg |-> body]

(***************************************************************************)
(* Client::new, lines 53-58: connect to the Server and send the address.  *)
(***************************************************************************)
ClientIntroduce(p, name) ==
    /\ pc[p] = "start"
    /\ pc' = [pc EXCEPT ![p] = "introduced"]
    /\ srv_backlog' = Append(srv_backlog,
                             [sink |-> p,
                              msg |-> [kind |-> "Introduction", address |-> AddrOf(p),
                                       network_name |-> name]])
    /\ UNCHANGED <<srv_msg_id, srv_directory, srv_link, id, msg_id, directory,
                   listener, todo, hellos, assigned, reg_order>>
    /\ UNCHANGED otherVars

(***************************************************************************)
(* A connection to the Server whose first message is not an Introduction:  *)
(* a program other than Client::new dialed the Server's address.           *)
(***************************************************************************)
ClientMisintroduce(p) ==
    /\ pc[p] = "start"
    /\ pc' = [pc EXCEPT ![p] = "rogue"]
    /\ srv_backlog' = Append(srv_backlog, [sink |-> p, msg |-> [kind |-> "Kill"]])
    /\ UNCHANGED <<srv_msg_id, srv_directory, srv_link, id, msg_id, directory,
                   listener, todo, hellos, assigned, reg_order>>
    /\ UNCHANGED otherVars

(***************************************************************************)
(* Server::accept_new_connections, one iteration of the loop: a first      *)
(* message that is not an Introduction makes the function return           *)
(* Err(UnexpectedMessage), which ends the loop and drops the listener.     *)
(***************************************************************************)
\* server.rs:72  target_id = d.len() + 1
TargetIdOffByOne(d) == Size(d)
TargetIdAcrossNames(d) == srv_msg_id + 1
TargetId(d) == Size(d) + 1

\* server.rs:73  dir = d.iter().map(|(k, v)| (*k, v.address)).collect()
DirOfButFirst(d) == {<<k, d[k].address>> : k \in DOMAIN d \ {1}}
DirOf(d) == {<<k, d[k].address>> : k \in DOMAIN d}

ServerAccept ==
    /\ srv_pc = "accepting"
    /\ srv_backlog # <<>>
    /\ srv_backlog' = Tail(srv_backlog)
    /\ LET c == Head(srv_backlog)
       IN IF c.msg.kind # "Introduction"
          THEN \* server.rs:63  return Err(LiquidError::UnexpectedMessage)
               /\ srv_pc' = "failed"
               /\ UNCHANGED <<srv_directory, srv_link, srv_msg_id, reg_order>>
          ELSE LET name == c.msg.network_name
                   conn == [address |-> c.msg.address, sink |-> c.sink]
                   known == name \in DOMAIN srv_directory
                   d == IF known THEN srv_directory[name] ELSE EmptyMap
                   target_id == IF known THEN TargetId(d) ELSE 1
                   dir == IF known THEN DirOf(d) ELSE {}
                   d2 == Insert(d, target_id, conn)
                   \* Server::send_msg: the frame goes to the sink stored under
                   \* target_id; `?` returns the error of a failed write
                   to == d2[target_id].sink
               IN /\ srv_directory' = Insert(srv_directory, name, d2)
                  /\ reg_order' = [reg_order EXCEPT ![name] = Append(@, c.sink)]
                  /\ IF sink_ok[to]
                     THEN /\ srv_link' = [srv_link EXCEPT ![to] =
                                Append(@, Message(srv_msg_id, 0, target_id,
                                                  [kind |-> "Directory", dir |-> dir]))]
                          /\ srv_msg_id' = srv_msg_id + 1
                          /\ UNCHANGED srv_pc
                     ELSE /\ srv_pc' = "failed"
                          /\ UNCHANGED <<srv_link, srv_msg_id>>
    /\ UNCHANGED <<pc, id, msg_id, directory, listener, todo, hellos, assigned>>
    /\ UNCHANGED <<runVars, kvVars, sink_ok, bcast_log, blobVars, pmapVars, codecVars, callerVars>>

(***************************************************************************)
(* Client::new, lines 60-71: read the registration message, initialize     *)
(* the Client and bind the listener.                                       *)
(***************************************************************************)
ClientInit(p) ==
    /\ pc[p] = "introduced"
    /\ srv_link[p] # <<>>
    /\ LET reg == Head(srv_link[p])
       IN /\ reg.msg.kind = "Directory"
          /\ id' = [id EXCEPT ![p] = reg.target_id]
          /\ msg_id' = [msg_id EXCEPT ![p] = reg.msg_id + 1]
          /\ todo' = [todo EXCEPT ![p] = reg.msg.dir]
          /\ assigned' = [assigned EXCEPT ![p] = reg.target_id]
    /\ srv_link' = [srv_link EXCEPT ![p] = Tail(@)]
    /\ directory' = [directory EXCEPT ![p] = EmptyMap]
    /\ listener' = [listener EXCEPT ![p] = TRUE]
    /\ pc' = [pc EXCEPT ![p] = "connecting"]
    /\ UNCHANGED <<srv_msg_id, srv_directory, srv_backlog, hellos, reg_order>>
    /\ UNCHANGED otherVars

(***************************************************************************)
(* Client::connect, called for each entry of reg.clients.                  *)
(***************************************************************************)
\* the k-th TCP connection the process `from` opened to the listener of `to`;
\* a Connection holds the write half of one
Socket(from, to, k) == <<from, to, k>>

\* the ConnectionMsg of client.rs:146-150
ConnectionMsgSwapped(p) == [my_id |-> msg_id[p], msg_id |-> id[p], my_address |-> AddrOf(p)]
ConnectionMsg(p) == [my_id |-> id[p], msg_id |-> msg_id[p], my_address |-> AddrOf(p)]

ClientConnect(p) ==
    /\ pc[p] = "connecting"
    /\ \E client \in todo[p] :
         LET q == ProcAt(client[2])
             conn == [address |-> client[2], peer |-> q, sock |-> Socket(p, q, 1)]
         IN IF ~listener[q]
            THEN \* TcpStream::connect fails: Client::new returns the error
                 /\ pc' = [pc EXCEPT ![p] = "failed"]
                 /\ listener' = [listener EXCEPT ![p] = FALSE]
                 /\ UNCHANGED <<directory, hellos, msg_id, todo>>
            ELSE /\ directory' = [directory EXCEPT ![p] = Insert(@, client[1], conn)]
                 /\ IF client[1] \in DOMAIN directory[p]
                    THEN \* Some(_) => Err(ReconnectionError)
                         /\ pc' = [pc EXCEPT ![p] = "failed"]
                         /\ listener' = [listener EXCEPT ![p] = FALSE]
                         /\ UNCHANGED <<hellos, msg_id, todo>>
                    ELSE \* the ConnectionMsg, then "Hi": two send_msg calls
                         /\ hellos' = [hellos EXCEPT ![q] =
                                Append(@, [from |-> p, kind |-> "ConnectionMsg",
                                           conn_msg |-> ConnectionMsg(p),
                                           sock |-> Socket(p, q, 1)])]
                         /\ msg_id' = [msg_id EXCEPT ![p] = @ + 2]
                         /\ todo' = [todo EXCEPT ![p] = @ \ {client}]
                         /\ UNCHANGED <<pc, listener>>
    /\ UNCHANGED <<srv_msg_id, srv_directory, srv_backlog, srv_link, id, assigned,
                   reg_order>>
    /\ UNCHANGED otherVars

\* Client::new, line 78: every entry is connected, Ok(c)
ClientNewReturn(p) ==
    /\ pc[p] = "connecting"
    /\ todo[p] = {}
    /\ pc' = [pc EXCEPT ![p] = "ready"]
    /\ UNCHANGED <<srv_msg_id, srv_directory, srv_backlog, srv_link, id, msg_id,
                   directory, listener, todo, hellos, assigned, reg_order>>
    /\ UNCHANGED otherVars

(***************************************************************************)
(* Client::accept_new_connections, one iteration of the loop.              *)
(***************************************************************************)
\* client.rs:195-197  self.id = std::cmp::max(self.id, id) + 1
IncrementMsgId(self_id, self_msg_id, m) == <<Max(self_id, m) + 1, self_msg_id>>

ClientAccept(p) ==
    /\ pc[p] = "ready"
    /\ hellos[p] # <<>>
    /\ LET h == Head(hellos[p])
       IN IF h.kind # "ConnectionMsg"
          THEN \* line 95: read_msg::<ConnectionMsg>(..).await? returns the error
               /\ pc' = [pc EXCEPT ![p] = "accept_read_failed"]
               /\ UNCHANGED <<directory, id, msg_id>>
          ELSE LET conn_msg == h.conn_msg
                   conn == [address |-> conn_msg.my_address, peer |-> h.from,
                            sock |-> h.sock]
               IN /\ directory' = [directory EXCEPT ![p] = Insert(@, conn_msg.my_id, conn)]
                  /\ IF conn_msg.my_id \in DOMAIN directory[p]
                     THEN \* Some(_) => return Err(ReconnectionError)
                          /\ pc' = [pc EXCEPT ![p] = "accept_failed"]
                          /\ UNCHANGED <<id, msg_id>>
                     ELSE /\ id' = [id EXCEPT ![p] =
                                    IncrementMsgId(id[p], msg_id[p], conn_msg.msg_id)[1]]
                          /\ msg_id' = [msg_id EXCEPT ![p] =
                                    IncrementMsgId(id[p], msg_id[p], conn_msg.msg_id)[2]]
                          /\ UNCHANGED pc
    /\ hellos' = [hellos EXCEPT ![p] = Tail(@)]
    /\ UNCHANGED <<srv_msg_id, srv_directory, srv_backlog, srv_link, listener, todo,
                   assigned, reg_order>>
    /\ UNCHANGED otherVars

(***************************************************************************)
(* Connections to a node's listener that Client::new does not make.        *)
(***************************************************************************)
\* the node q, already linked with p, opens a second connection to p and
\* sends its hello again
ClientRedial(q, p) ==
    /\ pc[q] = "ready" /\ listener[p] /\ p # q
    /\ \E k \in DOMAIN directory[q] : directory[q][k].peer = p
    /\ \A i \in 1..Len(hellos[p]) : hellos[p][i].sock # Socket(q, p, 2)
    /\ \A k \in DOMAIN directory[p] : directory[p][k].sock # Socket(q, p, 2)
    /\ hellos' = [hellos EXCEPT ![p] =
                    Append(@, [from |-> q, kind |-> "ConnectionMsg",
                               conn_msg |-> [my_id |-> assigned[q], msg_id |-> msg_id[q],
                                             my_address |-> AddrOf(q)],
                               sock |-> Socket(q, p, 2)])]
    /\ UNCHANGED <<srv_msg_id, srv_directory, srv_backlog, srv_link, pc, id, msg_id,
                   directory, listener, todo, assigned, reg_order>>
    /\ UNCHANGED otherVars

\* a program r that is not a Client opens a raw socket to p and sends a
\* framed Get as its first message
RawDial(r, p) ==
    /\ pc[r] = "start" /\ listener[p]
    /\ pc' = [pc EXCEPT ![r] = "rogue"]
    /\ hellos' = [hellos EXCEPT ![p] =
                    Append(@, [from |-> r, kind |-> "Get", conn_msg |-> None,
                               sock |-> Socket(r, p, 1)])]
    /\ UNCHANGED <<srv_msg_id, srv_directory, srv_backlog, srv_link, id, msg_id,
                   directory, listener, todo, assigned, reg_order>>
    /\ UNCHANGED otherVars

NextBoot ==
    \/ \E p \in Procs, name \in NetNames : ClientIntroduce(p, name)
    \/ ServerAccept
    \/ \E p \in Procs : ClientInit(p)
    \/ \E p \in Procs : ClientConnect(p)
    \/ \E p \in Procs : ClientNewReturn(p)
    \/ \E p \in Procs : ClientAccept(p)

SpecBoot == InitBoot /\ [][NextBoot]_vars

\* the bootstrap when programs that do not follow the registration protocol
\* dial the Server
NextBootRogue ==
    \/ NextBoot
    \/ \E p \in Procs : ClientMisintroduce(p)

SpecBootRogue == InitBoot /\ [][NextBootRogue]_vars

\* the bootstrap when a node's listener gets connections Client::new does
\* not make
NextMeshRogue ==
    \/ NextBoot
    \/ \E q, p \in Procs : ClientRedial(q, p)
    \/ \E r, p \in Procs : RawDial(r, p)

SpecMeshRogue == InitBoot /\ [][NextMeshRogue]_vars


(***************************************************************************)
(* The state after a bootstrap in which the processes 1..NumProcs, joining *)
(* the networks net_of[p], ran Client::new one after the other, each       *)
(* connecting to its peers in ascending id order, and every hello was      *)
(* accepted.  It is the initial state of the specifications of the         *)
(* steady state; SpecBoot reaches it.                                     *)
(***************************************************************************)
Members(net_of, name) == {p \in Procs : net_of[p] = name}
Rank(net_of, p) == Cardinality({q \in 1..p : net_of[q] = net_of[p]})
MemberAt(net_of, name, k) == CHOOSE p \in Members(net_of, name) : Rank(net_of, p) = k

\* Client.id of the node of rank j after it accepted the hellos of `later`
RECURSIVE IdAfterAccepts(_, _, _)
IdAfterAccepts(cur, j, later) ==
    IF later = {} THEN cur
    ELSE LET q == CHOOSE x \in later : \A y \in later : x <= y
         IN IdAfterAccepts(IncrementMsgId(cur, 0, q + 2 * (j - 1))[1], j, later \ {q})

Booted(net_of) ==
    /\ srv_msg_id = NumProcs
    /\ srv_directory =
         [name \in {net_of[p] : p \in Procs} |->
            [k \in 1..Cardinality(Members(net_of, name)) |->
               [address |-> AddrOf(MemberAt(net_of, name, k)),
                sink |-> MemberAt(net_of, name, k)]]]
    /\ srv_backlog = <<>>
    /\ srv_link = [p \in Procs |-> <<>>]
    /\ reg_order = [name \in NetNames |->
                      [k \in 1..Cardinality(Members(net_of, name)) |->
                         MemberAt(net_of, name, k)]]
    /\ pc = [p \in Procs |-> "ready"]
    /\ assigned = [p \in Procs |-> Rank(net_of, p)]
    /\ id = [p \in Procs |->
               IdAfterAccepts(Rank(net_of, p), Rank(net_of, p),
                              {q \in Members(net_of, net_of[p]) : q > p})]
    /\ msg_id = [p \in Procs |-> p + 2 * (Rank(net_of, p) - 1)]
    /\ directory = [p \in Procs |->
                      [k \in {Rank(net_of, q) : q \in Members(net_of, net_of[p]) \ {p}} |->
                         [address |-> AddrOf(MemberAt(net_of, net_of[p], k)),
                          peer |-> MemberAt(net_of, net_of[p], k),
                          sock |-> IF k < Rank(net_of, p)
                                   THEN Socket(p, MemberAt(net_of, net_of[p], k), 1)
                                   ELSE Socket(MemberAt(net_of, net_of[p], k), p, 1)]]]
    /\ listener = [p \in Procs |-> TRUE]
    /\ todo = [p \in Procs |-> {}]
    /\ hellos = [p \in Procs |-> <<>>]

(***************************************************************************)
(* Server::send_msg and Server::broadcast.                                 *)
(***************************************************************************)
\* server.rs:102-117: the frame written to the sink stored under target_id
\* of the named network, and the Server's next msg_id; when the write fails
\* `?` returns the error before msg_id advances
ServerSendMsgAnyNetwork(target_id, network_name, message) ==
    LET names == {n \in DOMAIN srv_directory : target_id \in DOMAIN srv_directory[n]}
        name == IF names \ {network_name} # {} THEN CHOOSE n \in names \ {network_name} : TRUE
                ELSE network_name
        to == srv_directory[name][target_id].sink
    IN [result |-> "Ok",
        link |-> [srv_link EXCEPT ![to] =
                    Append(@, Message(srv_msg_id, 0, target_id, message))],
        msg_id |-> srv_msg_id + 1]
ServerSendMsg(target_id, network_name, message) ==
    LET to == srv_directory[network_name][target_id].sink
    IN IF sink_ok[to]
       THEN [result |-> "Ok",
             link |-> [srv_link EXCEPT ![to] =
                         Append(@, Message(srv_msg_id, 0, target_id, message))],
             msg_id |-> srv_msg_id + 1]
       ELSE [result |-> "NetworkError", link |-> srv_link, msg_id |-> srv_msg_id]

\* server.rs:127-135: the snapshot of the ids of the named network
SnapshotIdsButLast(network_name) ==
    {k \in DOMAIN srv_directory[network_name] : k < Size(srv_directory[network_name])}
SnapshotIds(network_name) == DOMAIN srv_directory[network_name]

Kill == [kind |-> "Kill"]

\* server.rs:123-135: broadcast(Kill, name) takes its snapshot
BroadcastStart(name) ==
    /\ bcast = None
    /\ name \in DOMAIN srv_directory
    /\ name \notin kill_sent
    /\ bcast' = [name |-> name, message |-> Kill, d |-> SnapshotIds(name)]
    /\ bcast_log' = [name |-> name, d |-> SnapshotIds(name), tried |-> {},
                     result |-> "running"]
    /\ kill_sent' = kill_sent \cup {name}
    /\ UNCHANGED <<srvVars, cliVars, ctrl_alive, kill_permit, kill_fired, run_pc, kvVars>>
    /\ UNCHANGED <<srv_pc, sink_ok, blobVars, pmapVars, codecVars, callerVars>>

\* server.rs:137-140: one iteration of `for k in d`, in the order the
\* HashMap yielded the ids; `?` returns the error of a failed send at once,
\* Ok(()) follows the last send
BroadcastSend ==
    /\ bcast # None
    /\ \E k \in bcast.d :
         LET sent == ServerSendMsg(k, bcast.name, bcast.message)
         IN IF sent.result = "Ok"
            THEN /\ srv_link' = sent.link
                 /\ srv_msg_id' = sent.msg_id
                 /\ bcast' = IF bcast.d = {k} THEN None ELSE [bcast EXCEPT !.d = @ \ {k}]
                 /\ bcast_log' = [bcast_log EXCEPT !.tried = @ \cup {k},
                                     !.result = IF bcast.d = {k} THEN "Ok" ELSE @]
            ELSE /\ bcast' = None
                 /\ bcast_log' = [bcast_log EXCEPT !.tried = @ \cup {k},
                                                   !.result = sent.result]
                 /\ UNCHANGED <<srv_link, srv_msg_id>>
    /\ UNCHANGED <<srv_directory, srv_backlog, reg_order, cliVars, kill_sent,
                   ctrl_alive, kill_permit, kill_fired, run_pc, kvVars>>
    /\ UNCHANGED <<srv_pc, sink_ok, blobVars, pmapVars, codecVars, callerVars>>

(***************************************************************************)
(* The inbound task of the Server link (section 4.3 of the specification): *)
(* Kill triggers the termination notifier, then the task returns.          *)
(* Notify::notify stores a permit when no task is waiting.                 *)
(***************************************************************************)
ClientKill(p) ==
    /\ pc[p] = "ready"
    /\ ctrl_alive[p]
    /\ srv_link[p] # <<>>
    /\ Head(srv_link[p]).msg.kind = "Kill"
    /\ srv_link' = [srv_link EXCEPT ![p] = Tail(@)]
    /\ kill_permit' = [kill_permit EXCEPT ![p] = TRUE]
    /\ kill_fired' = [kill_fired EXCEPT ![p] = TRUE]
    /\ ctrl_alive' = [ctrl_alive EXCEPT ![p] = FALSE]
    /\ UNCHANGED <<srv_msg_id, srv_directory, srv_backlog, reg_order, cliVars,
                   bcast, kill_sent, run_pc, kvVars, extVars>>

(***************************************************************************)
(* Application::run(f), application.rs:159-166.                            *)
(***************************************************************************)
\* line 164: f(self.kv.clone()).await completes
RunUserTaskDone(p) ==
    /\ run_pc[p] = "user"
    /\ run_pc' = [run_pc EXCEPT ![p] = "await_kill"]
    /\ UNCHANGED <<bootVars, bcast, kill_sent, ctrl_alive, kill_permit, kill_fired, kvVars,
                   extVars>>

\* line 165: self.kill_notifier.notified().await completes by taking the permit
NotifiedNoWait(p) == TRUE
Notified(p) == kill_permit[p]

RunReturn(p) ==
    /\ run_pc[p] = "await_kill"
    /\ Notified(p)
    /\ kill_permit' = [kill_permit EXCEPT ![p] = FALSE]
    /\ run_pc' = [run_pc EXCEPT ![p] = "done"]
    /\ UNCHANGED <<bootVars, bcast, kill_sent, ctrl_alive, kill_fired, kvVars, extVars>>

\* the connection between the Server and process p breaks: p crashed or
\* closed its socket, and writes to the sink fail from then on
SinkBreak(p) ==
    /\ sink_ok[p]
    /\ sink_ok' = [sink_ok EXCEPT ![p] = FALSE]
    /\ UNCHANGED <<bootVars, runVars, kvVars, srv_pc, bcast_log, blobVars, pmapVars, codecVars, callerVars>>

InitRun ==
    /\ \E net_of \in [Procs -> NetNames] : Booted(net_of)
    /\ AppsNotStarted
    /\ KVStoreNew
    /\ ExtNew

NextRun ==
    \/ \E name \in NetNames : BroadcastStart(name)
    \/ BroadcastSend
    \/ \E p \in Procs : ClientKill(p)
    \/ \E p \in Procs : RunUserTaskDone(p)
    \/ \E p \in Procs : RunReturn(p)

SpecRun == InitRun /\ [][NextRun]_vars

\* Server::broadcast when the connections to some clients have broken
NextRunFault ==
    \/ NextRun
    \/ \E p \in Procs : SinkBreak(p)

SpecRunFault == InitRun /\ [][NextRunFault]_vars

\* The runtime runs every task that is ready; the user task terminates.
FairSpecRun ==
    /\ SpecRun
    /\ WF_vars(BroadcastSend)
    /\ \A p \in Procs : WF_vars(ClientKill(p))
    /\ \A p \in Procs : WF_vars(RunUserTaskDone(p))
    /\ \A p \in Procs : WF_vars(RunReturn(p))


(***************************************************************************)
(* Client::send_msg, client.rs:162-175: the frame is written to the        *)
(* connection stored under target_id and msg_id advances; an unknown       *)
(* target is UnknownId.                                                    *)
(***************************************************************************)
SendMsgNoFlush(p, target_id, message) ==
    IF target_id \notin DOMAIN directory[p]
    THEN [result |-> "UnknownId", links |-> links, msg_id |-> msg_id]
    ELSE [result |-> "Ok", links |-> links,
          msg_id |-> [msg_id EXCEPT ![p] = @ + 1]]
SendMsgAnyConn(p, target_id, message) ==
    IF target_id \notin DOMAIN directory[p]
    THEN [result |-> "UnknownId", links |-> links, msg_id |-> msg_id]
    ELSE LET k == CHOOSE x \in DOMAIN directory[p] : \A y \in DOMAIN directory[p] : x >= y
         IN [result |-> "Ok",
             links |-> [links EXCEPT ![<<p, directory[p][k].peer>>] = Append(@, message)],
             msg_id |-> [msg_id EXCEPT ![p] = @ + 1]]
SendMsgCountsUnknown(p, target_id, message) ==
    IF target_id \notin DOMAIN directory[p]
    THEN [result |-> "UnknownId", links |-> links,
          msg_id |-> [msg_id EXCEPT ![p] = @ + 1]]
    ELSE [result |-> "Ok",
          links |-> [links EXCEPT ![<<p, directory[p][target_id].peer>>] =
                        Append(@, message)],
          msg_id |-> [msg_id EXCEPT ![p] = @ + 1]]
SendMsg(p, target_id, message) ==
    IF target_id \notin DOMAIN directory[p]
    THEN [result |-> "UnknownId", links |-> links, msg_id |-> msg_id]
    ELSE [result |-> "Ok",
          links |-> [links EXCEPT ![<<p, directory[p][target_id].peer>>] =
                        Append(@, message)],
          msg_id |-> [msg_id EXCEPT ![p] = @ + 1]]

(***************************************************************************)
(* The key-value store, from section 4.4 of the specification.             *)
(***************************************************************************)
KeyHome(K) == K[2]
\* kv.id, which Application::new copies into node_id (application.rs:59)
KvId(n) == assigned[n]
HomeProc(K) == CHOOSE n \in Procs : KvId(n) = KeyHome(K)
Ok(v) == [ok |-> TRUE, val |-> v]
Err(e) == [ok |-> FALSE, val |-> e]
\* what an operation of node n returned; flip tells two returns of a node apart
Result(n, o, K, v, a, out) ==
    [flip |-> ~res[n].flip, op |-> o, key |-> K, arg |-> v, after |-> a, out |-> out]
\* whether waiter w is parked on the notifier of K at node n; the user task
\* is waiter 0, the task serving a Get of node r is waiter r
Parked(n, K, w) == K \in DOMAIN waiters[n] /\ w \in waiters[n][K]
Park(n, K, w) ==
    [waiters EXCEPT ![n] =
        Insert(@, K, (IF K \in DOMAIN @ THEN @[K] ELSE {}) \cup {w})]
\* firing the notifier of K releases every waiter parked on it
Fire(n, K) == [waiters EXCEPT ![n] = Insert(@, K, {})]

cliVarsButMsgId == <<pc, id, directory, listener, todo, hellos, assigned>>

\* put on the home node: insert if absent, KeyAlreadyPresent if present
PutLocalOverwrite(d, K, v) == [data |-> Insert(d, K, v), out |-> Ok("unit")]
PutLocal(d, K, v) ==
    IF K \in DOMAIN d
    THEN [data |-> d, out |-> Err("KeyAlreadyPresent")]
    ELSE [data |-> Insert(d, K, v), out |-> Ok("unit")]

\* put and get never suspend: the user code of a node may call them while a
\* wait_and_get of the same node is suspended (tasks it spawned or joined)
KvPut(n, K, v) ==
    /\ pc[n] = "ready" /\ nops < MaxOps
    /\ nops' = nops + 1
    /\ IF KeyHome(K) = KvId(n)
       THEN LET r == PutLocal(data[n], K, v)
            IN /\ data' = [data EXCEPT ![n] = r.data]
               /\ waiters' = IF r.out.ok THEN Fire(n, K) ELSE waiters
               /\ put_val' = IF r.out.ok THEN [put_val EXCEPT ![K] = v] ELSE put_val
               /\ res' = [res EXCEPT ![n] = Result(n, "put", K, v, FALSE, r.out)]
               /\ UNCHANGED <<links, msg_id>>
       ELSE LET sent == SendMsg(n, KeyHome(K),
                           [kind |-> "Value", sender |-> KvId(n), key |-> K, bytes |-> v])
            IN /\ links' = sent.links
               /\ msg_id' = sent.msg_id
               /\ res' = [res EXCEPT ![n] = Result(n, "put", K, v, FALSE,
                            IF sent.result = "Ok" THEN Ok("unit") ELSE Err(sent.result))]
               /\ UNCHANGED <<data, waiters, put_val>>
    /\ UNCHANGED <<cache, pending, oneshot, tasks, call, cross_handled>>
    /\ UNCHANGED <<srvVars, cliVarsButMsgId, runVars, extVars>>

\* get: local only, non-blocking
GetResultUsesCache(n, K) ==
    IF K \in DOMAIN data[n] THEN Ok(data[n][K])
    ELSE IF K \in DOMAIN cache[n] THEN Ok(cache[n][K]) ELSE Err("NotPresent")
GetResult(n, K) ==
    IF KeyHome(K) = KvId(n) /\ K \in DOMAIN data[n]
    THEN Ok(data[n][K])
    ELSE Err("NotPresent")

KvGet(n, K) ==
    /\ pc[n] = "ready" /\ nops < MaxOps
    /\ nops' = nops + 1
    /\ res' = [res EXCEPT ![n] = Result(n, "get", K, "none", FALSE, GetResult(n, K))]
    /\ UNCHANGED <<data, cache, waiters, pending, oneshot, tasks, links, call,
                   put_val, cross_handled>>
    /\ UNCHANGED <<bootVars, runVars, extVars>>

\* wait_and_get, up to its first suspension point
KvWaitAndGet(n, K) ==
    /\ pc[n] = "ready" /\ call[n] = None /\ nops < MaxOps
    /\ nops' = nops + 1
    /\ LET after == put_val[K] # "none"
           started == [op |-> "wait_and_get", key |-> K, after |-> after]
       IN IF KeyHome(K) = KvId(n)
          THEN /\ IF K \in DOMAIN data[n]
                  THEN /\ res' = [res EXCEPT ![n] =
                                   Result(n, "wait_and_get", K, "none", after, Ok(data[n][K]))]
                       /\ UNCHANGED <<waiters, call>>
                  ELSE /\ waiters' = Park(n, K, 0)
                       /\ call' = [call EXCEPT ![n] = started]
                       /\ UNCHANGED res
               /\ UNCHANGED <<pending, links, msg_id>>
          ELSE IF K \in DOMAIN cache[n]
          THEN /\ res' = [res EXCEPT ![n] =
                           Result(n, "wait_and_get", K, "none", after, Ok(cache[n][K]))]
               /\ UNCHANGED <<waiters, call, pending, links, msg_id>>
          ELSE LET sent == SendMsg(n, KeyHome(K),
                              [kind |-> "Get", sender |-> KvId(n), key |-> K,
                               bytes |-> "none"])
               IN /\ pending' = [pending EXCEPT ![n] = Insert(@, K, 1)]
                  /\ links' = sent.links
                  /\ msg_id' = sent.msg_id
                  /\ IF sent.result = "Ok"
                     THEN call' = [call EXCEPT ![n] = started] /\ UNCHANGED res
                     ELSE /\ res' = [res EXCEPT ![n] =
                                Result(n, "wait_and_get", K, "none", after, Err(sent.result))]
                          /\ UNCHANGED call
                  /\ UNCHANGED waiters
    /\ UNCHANGED <<data, cache, oneshot, tasks, put_val, cross_handled>>
    /\ UNCHANGED <<srvVars, cliVarsButMsgId, runVars, extVars>>

\* wait_and_get on the home node: released by the notifier, it returns the
\* stored value
WagLocalReturn(n) ==
    /\ call[n] # None
    /\ KeyHome(call[n].key) = KvId(n)
    /\ ~Parked(n, call[n].key, 0)
    /\ res' = [res EXCEPT ![n] =
                 Result(n, "wait_and_get", call[n].key, "none", call[n].after,
                        Ok(data[n][call[n].key]))]
    /\ call' = [call EXCEPT ![n] = None]
    /\ UNCHANGED <<data, cache, waiters, pending, oneshot, tasks, links, nops,
                   put_val, cross_handled>>
    /\ UNCHANGED <<bootVars, runVars, extVars>>

\* wait_and_get on a remote key: the one-shot slot was completed; the value
\* is recorded in the cache and returned
WagRemoteReturn(n) ==
    /\ call[n] # None
    /\ oneshot[n] # "empty"
    /\ cache' = [cache EXCEPT ![n] = Insert(@, call[n].key, oneshot[n])]
    /\ res' = [res EXCEPT ![n] =
                 Result(n, "wait_and_get", call[n].key, "none", call[n].after,
                        Ok(oneshot[n]))]
    /\ oneshot' = [oneshot EXCEPT ![n] = "empty"]
    /\ call' = [call EXCEPT ![n] = None]
    /\ UNCHANGED <<data, waiters, pending, tasks, links, nops, put_val, cross_handled>>
    /\ UNCHANGED <<bootVars, runVars, extVars>>

\* a bounded channel takes a value when it has room
ChannelSendFront(q, v) == <<v>> \o q
ChannelSend(q, v) == Append(q, v)

\* a detached task is spawned per served Get: the tasks of one requester for
\* one key are told apart by a number
FreshTask(h, K, sender) ==
    CHOOSE k \in 1..(Cardinality(tasks[h]) + 1) :
       [key |-> K, to |-> sender, k |-> k] \notin tasks[h]

\* The handler of a Get spawns a detached task for the wait and returns, so
\* a Get that is parked never holds the inbound task of its link.
InboundBlockedByParkedGet(a, b) ==
    \E t \in tasks[b] : t.to = KvId(a) /\ Parked(b, t.key, t.to)
InboundBlocked(a, b) == FALSE

\* The inbound task of the link a -> b takes the head frame and dispatches it
\* by kind: Get and Value to the store's handler, Blob to the blob channel
\* (the task waits while the channel is full).
Deliver(a, b) ==
    /\ links[<<a, b>>] # <<>>
    /\ ~InboundBlocked(a, b)
    /\ Head(links[<<a, b>>]).kind = "Blob" => Len(blobs[b]) < BlobCapacity
    /\ links' = [links EXCEPT ![<<a, b>>] = Tail(@)]
    /\ LET f == Head(links[<<a, b>>])
           K == f.key
       IN CASE f.kind = "Blob" ->
                 /\ blobs' = [blobs EXCEPT ![b] =
                                ChannelSend(@, [from |-> a, bytes |-> f.bytes])]
                 /\ UNCHANGED <<data, pending, oneshot, oneshot2, cross_handled, tasks,
                                waiters>>
            [] f.kind = "Get" ->
                 \* a detached task calls wait_and_get(key) locally
                 /\ IF KeyHome(K) = KvId(b)
                    THEN /\ tasks' = [tasks EXCEPT ![b] =
                                      @ \cup {[key |-> K, to |-> f.sender,
                                               k |-> FreshTask(b, K, f.sender)]}]
                         /\ waiters' = IF K \in DOMAIN data[b] THEN waiters
                                       ELSE Park(b, K, f.sender)
                    ELSE UNCHANGED <<tasks, waiters>>
                 /\ UNCHANGED <<data, pending, oneshot, oneshot2, cross_handled, blobs>>
            [] f.kind = "Value" ->
                 /\ IF K \in DOMAIN pending[b]
                    THEN \* complete the notifier with the bytes and remove it
                         /\ pending' = [pending EXCEPT ![b] = Remove(@, K)]
                         /\ IF pending[b][K] = 1
                            THEN /\ oneshot' = [oneshot EXCEPT ![b] = f.bytes]
                                 /\ UNCHANGED oneshot2
                            ELSE /\ oneshot2' = [oneshot2 EXCEPT ![b] = f.bytes]
                                 /\ UNCHANGED oneshot
                         /\ UNCHANGED data
                    ELSE IF KeyHome(K) # KvId(b)
                    THEN \* no pending record and key.home != self.id: store
                         /\ data' = [data EXCEPT ![b] = Insert(@, K, f.bytes)]
                         /\ UNCHANGED <<pending, oneshot, oneshot2>>
                    ELSE \* otherwise: discard with a logged warning
                         UNCHANGED <<data, pending, oneshot, oneshot2>>
                 /\ cross_handled' = IF KeyHome(K) = KvId(b)
                                     THEN cross_handled \cup {<<K, f.bytes>>}
                                     ELSE cross_handled
                 /\ UNCHANGED <<tasks, waiters, blobs>>
    /\ UNCHANGED <<cache, call, res, nops, put_val>>
    /\ UNCHANGED <<bootVars, runVars, faultVars, blob_sent, blob_got, pmapVars, codecVars,
                   call2, ret2>>

\* The task serving a Get: once its wait_and_get has the value, it sends
\* Value { key, bytes } back to the requester.
TaskReply(h, t) ==
    /\ t \in tasks[h]
    /\ ~Parked(h, t.key, t.to)
    /\ t.key \in DOMAIN data[h]
    /\ LET sent == SendMsg(h, t.to, [kind |-> "Value", sender |-> KvId(h),
                                     key |-> t.key, bytes |-> data[h][t.key]])
       IN /\ links' = sent.links
          /\ msg_id' = sent.msg_id
    /\ tasks' = [tasks EXCEPT ![h] = @ \ {t}]
    /\ UNCHANGED <<data, cache, waiters, pending, oneshot, call, res, nops,
                   put_val, cross_handled>>
    /\ UNCHANGED <<srvVars, cliVarsButMsgId, runVars, extVars>>

\* send_blob(target_id, bytes): wrap in a Blob frame and send via the mesh
KvSendBlob(n, target_id, bytes) ==
    /\ pc[n] = "ready" /\ nops < MaxOps
    /\ nops' = nops + 1
    /\ LET sent == SendMsg(n, target_id,
                      [kind |-> "Blob", sender |-> KvId(n), key |-> NoKey, bytes |-> bytes])
       IN /\ links' = sent.links
          /\ msg_id' = sent.msg_id
          /\ res' = [res EXCEPT ![n] = Result(n, "send_blob", NoKey, "none", FALSE,
                        IF sent.result = "Ok" THEN Ok("unit") ELSE Err(sent.result))]
          /\ blob_sent' = IF sent.result = "Ok"
                          THEN [blob_sent EXCEPT ![<<n, directory[n][target_id].peer>>] =
                                   Append(@, bytes)]
                          ELSE blob_sent
    /\ UNCHANGED <<data, cache, waiters, pending, oneshot, tasks, call, put_val,
                   cross_handled>>
    /\ UNCHANGED <<srvVars, cliVarsButMsgId, runVars, faultVars, blobs, blob_got, pmapVars, codecVars, callerVars>>

\* blob_receiver.recv() in the user task yields the next blob of the channel
BlobRecv(n) ==
    /\ pc[n] = "ready"
    /\ blobs[n] # <<>>
    /\ blobs' = [blobs EXCEPT ![n] = Tail(@)]
    /\ blob_got' = [blob_got EXCEPT ![<<Head(blobs[n]).from, n>>] =
                       Append(@, Head(blobs[n]).bytes)]
    /\ UNCHANGED <<bootVars, runVars, kvVars, faultVars, blob_sent, pmapVars, codecVars, callerVars>>

InitKV ==
    /\ Booted([p \in Procs |-> "a"])
    /\ AppsNotStarted
    /\ KVStoreNew
    /\ ExtNew

KvInternal ==
    \/ \E a, b \in Procs : Deliver(a, b)
    \/ \E h \in Procs : \E t \in tasks[h] : TaskReply(h, t)
    \/ \E n \in Procs : WagLocalReturn(n)
    \/ \E n \in Procs : WagRemoteReturn(n)

NextKV ==
    \/ \E n \in Procs, K \in Keys, v \in Values : KvPut(n, K, v)
    \/ \E n \in Procs, K \in Keys : KvGet(n, K)
    \/ \E n \in Procs, K \in Keys : KvWaitAndGet(n, K)
    \/ KvInternal

SpecKV == InitKV /\ [][NextKV]_vars

(***************************************************************************)
(* Two tasks of one node in wait_and_get at the same time: the user code   *)
(* of a node has spawned a second task that calls wait_and_get on a remote *)
(* key. It takes the same steps as the first: on a cache miss it inserts a *)
(* one-shot notifier into pending[key] (an insert into the map Key ->      *)
(* OneShotSlot: the key then maps to this caller's slot), sends Get and    *)
(* awaits its notifier.                                                    *)
(***************************************************************************)
KvWaitAndGet2(n, K) ==
    /\ pc[n] = "ready" /\ call2[n] = None /\ nops < MaxOps
    /\ KeyHome(K) # KvId(n)
    /\ nops' = nops + 1
    /\ IF K \in DOMAIN cache[n]
       THEN /\ ret2' = [ret2 EXCEPT ![n] = Ok(cache[n][K])]
            /\ UNCHANGED <<pending, links, msg_id, call2>>
       ELSE LET sent == SendMsg(n, KeyHome(K),
                           [kind |-> "Get", sender |-> KvId(n), key |-> K,
                            bytes |-> "none"])
            IN /\ pending' = [pending EXCEPT ![n] = Insert(@, K, 2)]
               /\ links' = sent.links
               /\ msg_id' = sent.msg_id
               /\ IF sent.result = "Ok"
                  THEN /\ call2' = [call2 EXCEPT ![n] = [op |-> "wait_and_get", key |-> K]]
                       /\ UNCHANGED ret2
                  ELSE /\ ret2' = [ret2 EXCEPT ![n] = Err(sent.result)]
                       /\ UNCHANGED call2
    /\ UNCHANGED <<data, cache, waiters, oneshot, tasks, call, res, put_val,
                   cross_handled, oneshot2>>
    /\ UNCHANGED <<srvVars, cliVarsButMsgId, runVars, faultVars, blobVars, pmapVars,
                   codecVars>>

\* the second task's one-shot slot was completed: the value is recorded in
\* the cache and returned
WagRemoteReturn2(n) ==
    /\ call2[n] # None
    /\ oneshot2[n] # "empty"
    /\ cache' = [cache EXCEPT ![n] = Insert(@, call2[n].key, oneshot2[n])]
    /\ ret2' = [ret2 EXCEPT ![n] = Ok(oneshot2[n])]
    /\ oneshot2' = [oneshot2 EXCEPT ![n] = "empty"]
    /\ call2' = [call2 EXCEPT ![n] = None]
    /\ UNCHANGED <<data, waiters, pending, oneshot, tasks, links, call, res, nops,
                   put_val, cross_handled>>
    /\ UNCHANGED <<bootVars, runVars, faultVars, blobVars, pmapVars, codecVars>>

NextKV2 ==
    \/ NextKV
    \/ \E n \in Procs, K \in Keys : KvWaitAndGet2(n, K)
    \/ \E n \in Procs : WagRemoteReturn2(n)

SpecKV2 == InitKV /\ [][NextKV2]_vars

Registered(name) == {reg_order[name][k] : k \in 1..Len(reg_order[name])}

(***************************************************************************)
(* Application::pmap, application.rs:123-154.  A rower's result is the set *)
(* of the node ids whose chunks it has mapped over; join is the union.     *)
(***************************************************************************)
\* the network of a registered process and the num_nodes it was started with
NetworkOf(p) == CHOOSE name \in NetNames : p \in Registered(name)
NumNodes(p) == Len(reg_order[NetworkOf(p)])

DfKey(n) == <<"df", KvId(n)>>
Some(r) == [some |-> TRUE, val |-> r]
NoneOpt == [some |-> FALSE, val |-> {}]
\* bincode::serialize / deserialize of a rower
Serialize(r) == [bincode |-> r]
Deserialize(blob) == blob.bincode
\* df.pmap(rower) on the chunk of node n, and res.join(external_rower)
LocalMap(n) == {KvId(n)}
Join(r, external_rower) == r \cup external_rower

\* lines 131-139: get the local chunk and map over it; the last node sends
\* its result to the node before it, every other node goes on to recv
PmapStart(n) ==
    /\ pc[n] = "ready" /\ pmap_pc[n] = "idle"
    /\ LET got == GetResult(n, DfKey(n))
           r == LocalMap(n)
           sent == SendMsg(n, KvId(n) - 1,
                      [kind |-> "Blob", sender |-> KvId(n), key |-> NoKey,
                       bytes |-> Serialize(r)])
       IN IF ~got.ok
          THEN \* Err(e) => Err(e)
               /\ pmap_out' = [pmap_out EXCEPT ![n] = got]
               /\ pmap_pc' = [pmap_pc EXCEPT ![n] = "done"]
               /\ UNCHANGED <<pmap_res, links, msg_id, blob_sent>>
          ELSE IF KvId(n) = NumNodes(n)
          THEN \* we are the last node
               /\ links' = sent.links
               /\ msg_id' = sent.msg_id
               /\ blob_sent' = IF sent.result = "Ok"
                               THEN [blob_sent EXCEPT ![<<n, directory[n][KvId(n) - 1].peer>>] =
                                        Append(@, Serialize(r))]
                               ELSE blob_sent
               /\ pmap_out' = [pmap_out EXCEPT ![n] =
                                 IF sent.result = "Ok" THEN Ok(NoneOpt) ELSE Err(sent.result)]
               /\ pmap_pc' = [pmap_pc EXCEPT ![n] = "done"]
               /\ pmap_res' = [pmap_res EXCEPT ![n] = r]
          ELSE /\ pmap_res' = [pmap_res EXCEPT ![n] = r]
               /\ pmap_pc' = [pmap_pc EXCEPT ![n] = "recv"]
               /\ UNCHANGED <<pmap_out, links, msg_id, blob_sent>>
    /\ UNCHANGED <<data, cache, waiters, pending, oneshot, tasks, call, res, nops,
                   put_val, cross_handled>>
    /\ UNCHANGED <<srvVars, cliVarsButMsgId, runVars, faultVars, blobs, blob_got, codecVars, callerVars>>

\* lines 140-149: receive the blob of the next node, join, and pass the
\* result on, or return it on node 1
PmapRecv(n) ==
    /\ pmap_pc[n] = "recv"
    /\ blobs[n] # <<>>
    /\ blobs' = [blobs EXCEPT ![n] = Tail(@)]
    /\ blob_got' = [blob_got EXCEPT ![<<Head(blobs[n]).from, n>>] =
                       Append(@, Head(blobs[n]).bytes)]
    /\ LET external_rower == Deserialize(Head(blobs[n]).bytes)
           r == Join(pmap_res[n], external_rower)
           sent == SendMsg(n, KvId(n) - 1,
                      [kind |-> "Blob", sender |-> KvId(n), key |-> NoKey,
                       bytes |-> Serialize(r)])
       IN /\ pmap_res' = [pmap_res EXCEPT ![n] = r]
          /\ pmap_pc' = [pmap_pc EXCEPT ![n] = "done"]
          /\ IF KvId(n) # 1
             THEN /\ links' = sent.links
                  /\ msg_id' = sent.msg_id
                  /\ blob_sent' = IF sent.result = "Ok"
                                  THEN [blob_sent EXCEPT ![<<n, directory[n][KvId(n) - 1].peer>>] =
                                           Append(@, Serialize(r))]
                                  ELSE blob_sent
                  /\ pmap_out' = [pmap_out EXCEPT ![n] =
                                    IF sent.result = "Ok" THEN Ok(NoneOpt) ELSE Err(sent.result)]
             ELSE /\ pmap_out' = [pmap_out EXCEPT ![n] = Ok(Some(r))]
                  /\ UNCHANGED <<links, msg_id, blob_sent>>
    /\ UNCHANGED <<data, cache, waiters, pending, oneshot, tasks, call, res, nops,
                   put_val, cross_handled>>
    /\ UNCHANGED <<srvVars, cliVarsButMsgId, runVars, faultVars, codecVars, callerVars>>

\* every node of every network holds its chunk under Key(df_name, node_id),
\* as Application::from_sor leaves it
InitPmap ==
    /\ \E net_of \in [Procs -> NetNames] : Booted(net_of)
    /\ AppsNotStarted
    /\ data = [p \in Procs |-> Insert(EmptyMap, DfKey(p), "chunk")]
    /\ cache = [p \in Procs |-> EmptyMap]
    /\ waiters = [p \in Procs |-> EmptyMap]
    /\ pending = [p \in Procs |-> EmptyMap]
    /\ oneshot = [p \in Procs |-> "empty"]
    /\ tasks = [p \in Procs |-> {}]
    /\ links = [e \in Procs \X Procs |-> <<>>]
    /\ call = [p \in Procs |-> None]
    /\ res = [p \in Procs |-> NoResult]
    /\ nops = 0
    /\ put_val = [k \in Keys |-> "none"]
    /\ cross_handled = {}
    /\ ExtNew

NextPmap ==
    \/ \E n \in Procs : PmapStart(n)
    \/ \E n \in Procs : PmapRecv(n)
    \/ \E a, b \in Procs : Deliver(a, b)

SpecPmap == InitPmap /\ [][NextPmap]_vars

\* the ids user tasks pass to send_blob: 0 is never a node id, and a node's
\* own id is not in its directory
BlobTargets == {0, 1, 2}

\* blobs between nodes whose stores hold values
NextBlob ==
    \/ \E K \in Keys, v \in Values : KvPut(HomeProc(K), K, v)
    \/ \E a, b \in Procs : Deliver(a, b)
    \/ \E n \in Procs, t \in BlobTargets, v \in Values : KvSendBlob(n, t, v)
    \/ \E n \in Procs : BlobRecv(n)

SpecBlob == InitKV /\ [][NextBlob]_vars

\* The runtime runs every task that is ready and delivers every frame of a
\* live link; user tasks are free to start operations or not.
FairSpecKV == SpecKV /\ WF_vars(KvInternal)

(***************************************************************************)
(* Properties of the bootstrap (SpecBoot).                                 *)
(***************************************************************************)
\* every node registered under the name has returned from Client::new and
\* every hello sent to it has been accepted
BootComplete(name) ==
    /\ Registered(name) # {}
    /\ \A p \in Registered(name) : pc[p] = "ready" /\ hellos[p] = <<>>

\* C6: after the bootstrap of the N nodes of one network, in every order of
\* registering, dialing and accepting, each node's directory holds exactly
\* N-1 entries: one link for every other node, under the id the Server
\* assigned to that node, and none under its own id.
C6_FullMesh ==
    \A name \in NetNames :
      BootComplete(name) =>
        \A p \in Registered(name) :
          /\ DOMAIN directory[p] = {assigned[q] : q \in Registered(name) \ {p}}
          /\ Size(directory[p]) = Cardinality(Registered(name)) - 1
          /\ assigned[p] \notin DOMAIN directory[p]
          /\ \A q \in Registered(name) \ {p} :
               /\ directory[p][assigned[q]].peer = q
               /\ directory[p][assigned[q]].address = AddrOf(q)

C6_Witness ==
    \E name \in NetNames :
      /\ BootComplete(name)
      /\ Cardinality(Registered(name)) = NumProcs
      /\ \A p \in Procs : Size(directory[p]) = NumProcs - 1

\* C7: the ids the Server has assigned under one network name are exactly
\* 1..N after N registrations, and the k-th registration got id k.
C7_ContiguousIds ==
    /\ \A name \in NetNames :
         /\ (name \in DOMAIN srv_directory) <=> (reg_order[name] # <<>>)
         /\ name \in DOMAIN srv_directory =>
              /\ DOMAIN srv_directory[name] = 1..Len(reg_order[name])
              /\ \A k \in 1..Len(reg_order[name]) :
                   srv_directory[name][k].sink = reg_order[name][k]
    /\ \A name \in NetNames : \A k \in 1..Len(reg_order[name]) :
         LET p == reg_order[name][k]
         IN /\ \A i \in 1..Len(srv_link[p]) :
                 srv_link[p][i].msg.kind = "Directory" => srv_link[p][i].target_id = k
            /\ assigned[p] # 0 => assigned[p] = k

C7_Witness ==
    \E name \in NetNames :
      /\ Len(reg_order[name]) = NumProcs
      /\ \A p \in Procs : assigned[p] # 0

\* C8: the id field of a node is, in every state after its registration,
\* the id the Server assigned to it.
C8_IdStable == \A p \in Procs : assigned[p] # 0 => id[p] = assigned[p]

(***************************************************************************)
(* Properties of shutdown (SpecRun, FairSpecRun).                          *)
(***************************************************************************)
\* a Kill broadcast was started for the network the process registered under
KillBroadcastTo(p) ==
    \E name \in kill_sent : \E k \in DOMAIN srv_directory[name] :
       srv_directory[name][k].sink = p

\* C9: once the Server broadcasts Kill to a network, every node registered
\* in it eventually has its termination notifier fired and its run completed.
C9_KillTerminates ==
    \A p \in Procs : KillBroadcastTo(p) ~> (kill_fired[p] /\ run_pc[p] = "done")

\* one node completed run after the Kill; on another the Kill arrived while
\* the user task was still running
C9_Witness ==
    \E p, q \in Procs :
      /\ KillBroadcastTo(p) /\ kill_fired[p] /\ run_pc[p] = "done"
      /\ KillBroadcastTo(q) /\ kill_permit[q] /\ run_pc[q] = "user"

\* C10: run completes only from the point where the user task has finished
\* and it awaits the notifier, and only after the Kill handler fired it.
C10_RunWaitsForKill ==
    [][\A p \in Procs :
         (run_pc'[p] = "done" /\ run_pc[p] # "done") =>
            (run_pc[p] = "await_kill" /\ kill_fired[p])]_vars

\* one node has finished its work and waits, not killed yet, while another
\* has completed run
C10_Witness ==
    \E p, q \in Procs :
      /\ run_pc[p] = "await_kill" /\ ~kill_fired[p] /\ ~KillBroadcastTo(p)
      /\ run_pc[q] = "done"


(***************************************************************************)
(* Properties of the key-value store (SpecKV, FairSpecKV).                 *)
(***************************************************************************)
WagReturned(n, K) ==
    /\ call[n] = None
    /\ res[n].op = "wait_and_get" /\ res[n].key = K
    /\ res[n].out = Ok(put_val[K])

C3_CrossHomePutStored ==
    \A e \in cross_handled :
      LET K == e[1]
          h == HomeProc(K)
      IN /\ K \in DOMAIN data[h]
         /\ put_val[K] = "none" =>
              \E e2 \in cross_handled : e2[1] = K /\ data[h][K] = e2[2]

\* C4: a put on the home node stores the value when the key is absent; when
\* the key is present it returns KeyAlreadyPresent and changes no map; a
\* populated key keeps its value in every step, and every wait_and_get
\* returns the value of the put that succeeded.
C4_DuplicatePutRejected ==
    [][\A n \in Procs :
         /\ \A K \in DOMAIN data[n] : K \in DOMAIN data'[n] /\ data'[n][K] = data[n][K]
         /\ (res'[n].flip # res[n].flip /\ res'[n].op = "put"
               /\ KeyHome(res'[n].key) = KvId(n)) =>
              IF res'[n].key \in DOMAIN data[n]
              THEN /\ res'[n].out = Err("KeyAlreadyPresent")
                   /\ UNCHANGED <<data, cache, waiters, pending>>
              ELSE /\ res'[n].out = Ok("unit")
                   /\ data'[n][res'[n].key] = res'[n].arg
         /\ (res'[n].op = "wait_and_get" /\ res'[n].out.ok) =>
              res'[n].out.val = put_val'[res'[n].key]
      ]_vars

\* a second put with another value was rejected and a wait_and_get of
\* another node returned the first value
C4_Witness ==
    \E n, m \in Procs :
      /\ res[n].op = "put" /\ res[n].out = Err("KeyAlreadyPresent")
      /\ data[n][res[n].key] # res[n].arg
      /\ res[m].op = "wait_and_get"
      /\ res[m].key = res[n].key /\ res[m].out = Ok(data[n][res[n].key])

\* C5: get returns at once, sends nothing and changes no map of the store;
\* it returns the stored value exactly when the key is homed on the calling
\* node and populated, and NotPresent otherwise.
C5_GetLocalOnly ==
    [][\A n \in Procs :
         (res'[n].flip # res[n].flip /\ res'[n].op = "get") =>
           /\ UNCHANGED <<data, cache, waiters, pending, oneshot, tasks, links,
                          msg_id, call>>
           /\ res'[n].out =
                IF KeyHome(res'[n].key) = KvId(n) /\ res'[n].key \in DOMAIN data[n]
                THEN Ok(data[n][res'[n].key])
                ELSE Err("NotPresent")
      ]_vars

\* get answered NotPresent for a remote key whose value is in the local
\* cache
C5_Witness ==
    \E n \in Procs :
      /\ res[n].op = "get" /\ res[n].out = Err("NotPresent")
      /\ KvId(n) # KeyHome(res[n].key)
      /\ res[n].key \in DOMAIN cache[n]

(***************************************************************************)
(* Properties of failures at the Server (SpecRunFault, SpecBootRogue).     *)
(***************************************************************************)
\* C11: when a broadcast has returned, a send was attempted to every id of
\* its snapshot, whether or not one of the sends failed.
C11_BroadcastTriesAll ==
    (bcast_log # None /\ bcast_log.result # "running") =>
        bcast_log.tried = bcast_log.d

\* C12: a connection whose first message is not an Introduction gets no id
\* and no directory entry, and after it the Server still accepts: whenever
\* an Introduction is the next connection waiting, the accept loop is there
\* to take it.
C12_UnexpectedMessageLocal ==
    /\ \A p \in Procs : pc[p] = "rogue" =>
          /\ assigned[p] = 0
          /\ \A name \in DOMAIN srv_directory :
                \A k \in DOMAIN srv_directory[name] : srv_directory[name][k].sink # p
    /\ (srv_backlog # <<>> /\ Head(srv_backlog).msg.kind = "Introduction") =>
          srv_pc = "accepting"

(***************************************************************************)
(* Properties of send and of the blob channel (SpecBlob).                  *)
(***************************************************************************)
\* C13: a send to an id that is not in the directory returns UnknownId and
\* writes no frame, leaves the directory as it is and does not advance the
\* sender's msg_id.
C13_UnknownIdChangesNothing ==
    [][\A n \in Procs :
         (res'[n].flip # res[n].flip /\ res'[n].op = "send_blob") =>
            /\ res'[n].out = Err("UnknownId") => UNCHANGED <<links, directory, msg_id>>
            /\ res'[n].out = Ok("unit") => msg_id'[n] = msg_id[n] + 1
      ]_vars

\* a send_blob to an unknown id returned UnknownId while frames of earlier
\* sends were in flight
C13_Witness ==
    \E n \in Procs :
      /\ res[n].op = "send_blob" /\ res[n].out = Err("UnknownId")
      /\ \E e \in Procs \X Procs : links[e] # <<>>

\* the blobs of a -> b still on the link or in the channel, in order
BlobsOnLink(a, b) ==
    LET fs == SelectSeq(links[<<a, b>>], LAMBDA f : f.kind = "Blob")
    IN [i \in 1..Len(fs) |-> fs[i].bytes]
BlobsInChannel(a, b) ==
    LET es == SelectSeq(blobs[b], LAMBDA e : e.from = a)
    IN [i \in 1..Len(es) |-> es[i].bytes]

\* C16: what the blob stream of b has yielded from a, followed by what is in
\* b's channel and on the link, is what a sent to b, in the order sent: no
\* blob is yielded twice, lost or reordered; and the step that handles a
\* Blob frame changes no map of any store.
C16_BlobsExactlyOnceInOrder ==
    /\ [](\A a, b \in Procs :
            blob_got[<<a, b>>] \o BlobsInChannel(a, b) \o BlobsOnLink(a, b)
               = blob_sent[<<a, b>>])
    /\ [][blobs' # blobs => UNCHANGED <<data, cache, waiters, pending, tasks, oneshot>>]_vars

\* a receiver yielded two different blobs of one sender while the store held
\* a value
C16_Witness ==
    \E a, b \in Procs :
      /\ Len(blob_got[<<a, b>>]) = 2
      /\ blob_got[<<a, b>>][1] # blob_got[<<a, b>>][2]
      /\ \E n \in Procs : DOMAIN data[n] # {}

(***************************************************************************)
(* Properties of a node's accept task (SpecMeshRogue).                     *)
(***************************************************************************)
\* the hello at the head of p's listener queue is one Client::new sent and p
\* has no link for its sender yet
ProperHelloWaiting(p) ==
    /\ hellos[p] # <<>>
    /\ Head(hellos[p]).kind = "ConnectionMsg"
    /\ Head(hellos[p]).sock[3] = 1
    /\ Head(hellos[p]).conn_msg.my_id \notin DOMAIN directory[p]

\* C14: a hello carrying an id that is already in the directory makes the
\* accept task return ReconnectionError, and the duplicate link is closed:
\* no directory entry holds the write half of a second connection.
C14_DuplicateLinkClosed ==
    \A p \in Procs : \A k \in DOMAIN directory[p] :
        directory[p][k].sock[3] = 1

\* C15: a first message that is not a hello closes that connection only:
\* the accept task goes on, so a proper hello waiting at the listener of a
\* node that has returned from Client::new finds the accept loop running.
C15_ProtocolViolationLocal ==
    \A p \in Procs :
        (ProperHelloWaiting(p) /\ pc[p] \notin {"connecting", "failed"}) =>
            pc[p] # "accept_read_failed"

(***************************************************************************)
(* Properties of Application::pmap (SpecPmap).                             *)
(***************************************************************************)
\* the ids of the nodes of p's network
NodeIds(p) == 1..NumNodes(p)

\* C17: in a cluster of any size N >= 1 whose nodes all hold their chunk, a
\* pmap call that has returned has returned Some(join of the N local
\* results) on node 1 and None on every other node.
C17_PmapResult ==
    \A p \in Procs :
        pmap_pc[p] = "done" =>
            pmap_out[p] = IF KvId(p) = 1 THEN Ok(Some(NodeIds(p))) ELSE Ok(NoneOpt)

(***************************************************************************)
(* The framed codec, from section 4.1 of the specification.  A byte is a   *)
(* number in 0..255, a frame a sequence of bytes.                          *)
(***************************************************************************)
Take(bs, n) == SubSeq(bs, 1, n)
Drop(bs, n) == SubSeq(bs, n + 1, Len(bs))

\* fixed-width little-endian integers
RECURSIVE LittleEndian(_, _)
LittleEndian(n, width) ==
    IF width = 0 THEN <<>> ELSE <<n % 256>> \o LittleEndian(n \div 256, width - 1)
RECURSIVE FromLittleEndian(_)
FromLittleEndian(bs) ==
    IF bs = <<>> THEN 0 ELSE Head(bs) + 256 * FromLittleEndian(Tail(bs))
\* the 4-byte big-endian length prefix
Reverse(bs) == [i \in 1..Len(bs) |-> bs[Len(bs) + 1 - i]]
BigEndian(n, width) == Reverse(LittleEndian(n, width))
FromBigEndian(bs) == FromLittleEndian(Reverse(bs))

EncodeU64(n) == LittleEndian(n, 8)
EncodeU32(n) == LittleEndian(n, 4)
\* strings and blobs: u32 length, then the bytes
EncodeBytes(bs) == EncodeU32(Len(bs)) \o bs

KindTagGetAsValue(kind) ==
    CASE kind = "Introduction" -> 1 [] kind = "Directory" -> 2 [] kind = "Kill" -> 3
      [] kind = "Get" -> 5 [] kind = "Value" -> 5 [] kind = "Blob" -> 6
KindTag(kind) ==
    CASE kind = "Introduction" -> 1 [] kind = "Directory" -> 2 [] kind = "Kill" -> 3
      [] kind = "Get" -> 4 [] kind = "Value" -> 5 [] kind = "Blob" -> 6
TagKind(tag) ==
    CASE tag = 1 -> "Introduction" [] tag = 2 -> "Directory" [] tag = 3 -> "Kill"
      [] tag = 4 -> "Get" [] tag = 5 -> "Value" [] tag = 6 -> "Blob"
      [] OTHER -> "unknown"

RECURSIVE EncodeEntries(_)
EncodeEntries(dir) ==
    IF dir = <<>> THEN <<>>
    ELSE EncodeU64(Head(dir)[1]) \o EncodeBytes(Head(dir)[2]) \o EncodeEntries(Tail(dir))

EncodePayload(kind, p) ==
    CASE kind = "Introduction" -> EncodeBytes(p.address) \o EncodeBytes(p.network_name)
      [] kind = "Directory" -> EncodeU32(Len(p.dir)) \o EncodeEntries(p.dir)
      [] kind = "Kill" -> <<>>
      [] kind = "Get" -> EncodeBytes(p.key_name) \o EncodeU64(p.home)
      [] kind = "Value" -> EncodeBytes(p.key_name) \o EncodeU64(p.home) \o EncodeBytes(p.bytes)
      [] kind = "Blob" -> EncodeBytes(p.bytes)

\* the record, prefixed by the 4-byte big-endian length of the remaining bytes
Encode(m) ==
    LET body == EncodeU64(m.msg_id) \o EncodeU64(m.sender) \o EncodeU64(m.target)
                  \o <<KindTag(m.kind)>> \o EncodePayload(m.kind, m.payload)
    IN BigEndian(Len(body), 4) \o body

\* readers: the value read and the bytes left, or a failure
ReadFailed == [ok |-> FALSE]
ReadU(bs, width) ==
    IF Len(bs) < width THEN ReadFailed
    ELSE [ok |-> TRUE, val |-> FromLittleEndian(Take(bs, width)), rest |-> Drop(bs, width)]
ReadBytes(bs) ==
    LET n == ReadU(bs, 4)
    IN IF ~n.ok THEN ReadFailed
       ELSE IF Len(n.rest) < n.val THEN ReadFailed
       ELSE [ok |-> TRUE, val |-> Take(n.rest, n.val), rest |-> Drop(n.rest, n.val)]

RECURSIVE ReadEntries(_, _)
ReadEntries(bs, count) ==
    IF count = 0 THEN [ok |-> TRUE, val |-> <<>>, rest |-> bs]
    ELSE LET k == ReadU(bs, 8)
             a == IF k.ok THEN ReadBytes(k.rest) ELSE ReadFailed
             more == IF a.ok THEN ReadEntries(a.rest, count - 1) ELSE ReadFailed
         IN IF more.ok
            THEN [ok |-> TRUE, val |-> <<<<k.val, a.val>>>> \o more.val, rest |-> more.rest]
            ELSE ReadFailed

DecodePayload(kind, bs) ==
    CASE kind = "Introduction" ->
           LET a == ReadBytes(bs)
               n == IF a.ok THEN ReadBytes(a.rest) ELSE ReadFailed
           IN IF n.ok
              THEN [ok |-> TRUE, val |-> [address |-> a.val, network_name |-> n.val],
                    rest |-> n.rest]
              ELSE ReadFailed
      [] kind = "Directory" ->
           LET c == ReadU(bs, 4)
               es == IF c.ok THEN ReadEntries(c.rest, c.val) ELSE ReadFailed
           IN IF es.ok THEN [ok |-> TRUE, val |-> [dir |-> es.val], rest |-> es.rest]
              ELSE ReadFailed
      [] kind = "Kill" -> [ok |-> TRUE, val |-> [empty |-> TRUE], rest |-> bs]
      [] kind = "Get" ->
           LET k == ReadBytes(bs)
               h == IF k.ok THEN ReadU(k.rest, 8) ELSE ReadFailed
           IN IF h.ok
              THEN [ok |-> TRUE, val |-> [key_name |-> k.val, home |-> h.val], rest |-> h.rest]
              ELSE ReadFailed
      [] kind = "Value" ->
           LET k == ReadBytes(bs)
               h == IF k.ok THEN ReadU(k.rest, 8) ELSE ReadFailed
               b == IF h.ok THEN ReadBytes(h.rest) ELSE ReadFailed
           IN IF b.ok
              THEN [ok |-> TRUE,
                    val |-> [key_name |-> k.val, home |-> h.val, bytes |-> b.val],
                    rest |-> b.rest]
              ELSE ReadFailed
      [] kind = "Blob" ->
           LET b == ReadBytes(bs)
           IN IF b.ok THEN [ok |-> TRUE, val |-> [bytes |-> b.val], rest |-> b.rest]
              ELSE ReadFailed
      [] OTHER -> ReadFailed

\* a frame whose length prefix, kind tag or payload is wrong is an error
Decode(bs) ==
    IF Len(bs) < 4 \/ FromBigEndian(Take(bs, 4)) # Len(bs) - 4 THEN Err("ProtocolViolation")
    ELSE LET m == ReadU(Drop(bs, 4), 8)
             s == IF m.ok THEN ReadU(m.rest, 8) ELSE ReadFailed
             t == IF s.ok THEN ReadU(s.rest, 8) ELSE ReadFailed
             g == IF t.ok THEN ReadU(t.rest, 1) ELSE ReadFailed
             p == IF g.ok THEN DecodePayload(TagKind(g.val), g.rest) ELSE ReadFailed
         IN IF p.ok /\ p.rest = <<>>
            THEN Ok([msg_id |-> m.val, sender |-> s.val, target |-> t.val,
                     kind |-> TagKind(g.val), payload |-> p.val])
            ELSE Err("ProtocolViolation")

\* the well-formed messages the codec is run on
MsgIds == {0, 300}
NodeIdsOnWire == {0, 1, 2}
Strings == {<<>>, <<97>>, <<49, 50, 55, 58, 56>>}
Blobs == {<<>>, <<0>>, <<222, 173, 190, 239>>}
Directories == {<<>>, <<<<1, <<97>>>>>>, <<<<2, <<97>>>>, <<1, <<49, 50, 55, 58, 56>>>>>>}
Payloads(kind) ==
    CASE kind = "Introduction" -> [address : Strings, network_name : Strings]
      [] kind = "Directory" -> [dir : Directories]
      [] kind = "Kill" -> {[empty |-> TRUE]}
      [] kind = "Get" -> [key_name : Strings, home : NodeIdsOnWire \ {0}]
      [] kind = "Value" -> [key_name : Strings, home : NodeIdsOnWire \ {0}, bytes : Blobs]
      [] kind = "Blob" -> [bytes : Blobs]
Kinds == {"Introduction", "Directory", "Kill", "Get", "Value", "Blob"}
WireMessage(i, s, t, kind, p) ==
    [msg_id |-> i, sender |-> s, target |-> t, kind |-> kind, payload |-> p]

\* a sender picks a message, writes its frame; the receiver reads the frame
CodecPick(i, s, t, kind) ==
    /\ codec_msg = None
    /\ \E p \in Payloads(kind) : codec_msg' = WireMessage(i, s, t, kind, p)
    /\ UNCHANGED <<wire, decoded>>
    /\ UNCHANGED <<bootVars, runVars, kvVars, faultVars, blobVars, pmapVars, callerVars>>

CodecEncode ==
    /\ codec_msg # None /\ wire = <<>>
    /\ wire' = Encode(codec_msg)
    /\ UNCHANGED <<codec_msg, decoded>>
    /\ UNCHANGED <<bootVars, runVars, kvVars, faultVars, blobVars, pmapVars, callerVars>>

CodecDecode ==
    /\ wire # <<>> /\ decoded = None
    /\ decoded' = Decode(wire)
    /\ UNCHANGED <<codec_msg, wire>>
    /\ UNCHANGED <<bootVars, runVars, kvVars, faultVars, blobVars, pmapVars, callerVars>>

NextCodec ==
    \/ \E i \in MsgIds, s \in NodeIdsOnWire, t \in NodeIdsOnWire \ {0}, kind \in Kinds :
         CodecPick(i, s, t, kind)
    \/ CodecEncode
    \/ CodecDecode

SpecCodec == InitBoot /\ [][NextCodec]_vars

\* C18: decode(encode(m)) = m for every well-formed message of the six
\* kinds: msg_id, sender, target, kind and payload all come back.
C18_CodecRoundTrip ==
    decoded # None => decoded = Ok(codec_msg)

\* a Value message with a multi-byte msg_id and a non-empty blob made the
\* round trip
C18_Witness ==
    /\ decoded # None /\ decoded.ok
    /\ codec_msg.kind = "Value" /\ codec_msg.msg_id > 255
    /\ Len(codec_msg.payload.bytes) = 4 /\ Len(wire) > 40

(***************************************************************************)
(* Properties of registration at the Server (SpecBoot).                    *)
(***************************************************************************)
\* C19: a registration under one network name leaves the sub-directory of
\* every other name as it was, and the id it assigns is one more than the
\* number of nodes registered under its own name, so the first node of each
\* name gets id 1.
C19_IdSpacesIndependent ==
    [][\A name \in NetNames :
         reg_order'[name] # reg_order[name] =>
           /\ \A other \in NetNames \ {name} :
                /\ reg_order'[other] = reg_order[other]
                /\ (other \in DOMAIN srv_directory') <=> (other \in DOMAIN srv_directory)
                /\ other \in DOMAIN srv_directory =>
                     srv_directory'[other] = srv_directory[other]
           /\ LET p == reg_order'[name][Len(reg_order'[name])]
                  reg == srv_link'[p][Len(srv_link'[p])]
              IN /\ reg.target_id = Len(reg_order[name]) + 1
                 /\ DOMAIN srv_directory'[name] = 1..(Len(reg_order[name]) + 1)
                 /\ srv_directory'[name][reg.target_id].sink = p
      ]_vars

\* both names have a node with id 1, and one of them a second node with
\* id 2
C19_Witness ==
    \E p, q, r \in Procs :
      /\ p # q /\ assigned[p] = 1 /\ assigned[q] = 1
      /\ assigned[r] = 2
      /\ \E name \in NetNames : Len(reg_order[name]) = 2 /\ reg_order[name][2] = r

\* the Directory messages in flight to the node registered at position k
DirectoryMsgsTo(p) ==
    {srv_link[p][i] : i \in {j \in 1..Len(srv_link[p]) : srv_link[p][j].msg.kind = "Directory"}}

\* C20: the Directory message for the node at position k of a name lists
\* exactly the k-1 nodes registered under the name before it, each with its
\* id and the address it introduced, and not the node itself; when the
\* message is on its way the node's sink is in the sub-directory under k.
C20_DirectoryListsEarlierPeers ==
    \A name \in NetNames : \A k \in 1..Len(reg_order[name]) :
      LET p == reg_order[name][k]
      IN \A reg \in DirectoryMsgsTo(p) :
           /\ reg.target_id = k
           /\ reg.msg.dir = {<<j, AddrOf(reg_order[name][j])>> : j \in 1..(k - 1)}
           /\ \A e \in reg.msg.dir : e[1] # k /\ e[2] # AddrOf(p)
           /\ srv_directory[name][k].sink = p
           /\ srv_directory[name][k].address = AddrOf(p)

\* the third node of a name has its Directory message, listing two peers, on
\* the way
C20_Witness ==
    \E name \in NetNames :
      /\ Len(reg_order[name]) = 3
      /\ \E reg \in DirectoryMsgsTo(reg_order[name][3]) : Cardinality(reg.msg.dir) = 2

(***************************************************************************)
(* Properties of the order of binding and registering (SpecBoot).          *)
(***************************************************************************)
\* C21: a node binds its listener before it introduces itself, so every
\* address a node has taken from its Directory message and is about to dial
\* has a bound listener, and no Client::new fails on a refused dial.
C21_DialedListenersBound ==
    \A p \in Procs :
      /\ \A client \in todo[p] : listener[ProcAt(client[2])]
      /\ pc[p] # "failed"

(***************************************************************************)
(* Properties of a node's directory entries (SpecMeshRogue).               *)
(***************************************************************************)
\* C25: a directory entry is write-once: once a link is registered under a
\* peer id, the entry for that id is that same link in every later state.
C25_EntryWriteOnce ==
    [][\A p \in Procs : \A k \in DOMAIN directory[p] :
          /\ k \in DOMAIN directory'[p]
          /\ directory'[p][k] = directory[p][k]
      ]_vars

(***************************************************************************)
(* Properties of Server::broadcast over several networks (SpecRun).        *)
(***************************************************************************)
\* the Kill messages on their way to p, and whether p has one or handled one
KillMsgsTo(p) ==
    {srv_link[p][i] : i \in {j \in 1..Len(srv_link[p]) : srv_link[p][j].msg.kind = "Kill"}}

\* C26: broadcast(Kill, name) sends to the nodes registered under name and
\* to no node of another name; every message has sender 0 and the recipient's
\* id as target; when it has returned every node of the name was sent the
\* message; and no step of a broadcast changes a sub-directory.
C26_BroadcastConfined ==
    /\ [](\A p \in Procs :
            /\ (KillMsgsTo(p) # {} \/ kill_fired[p]) => NetworkOf(p) \in kill_sent
            /\ \A m \in KillMsgsTo(p) : m.sender_id = 0 /\ m.target_id = assigned[p])
    /\ [](\A name \in kill_sent :
            (bcast = None \/ bcast.name # name) =>
               \A p \in Registered(name) : KillMsgsTo(p) # {} \/ kill_fired[p])
    /\ [][bcast' # bcast => srv_directory' = srv_directory]_vars

\* a broadcast to one network has returned while the node of another network
\* has no Kill and is still waiting for one
C26_Witness ==
    \E name \in kill_sent :
      /\ bcast = None
      /\ Cardinality(Registered(name)) = 2
      /\ \E q \in Procs \ Registered(name) :
           /\ NetworkOf(q) \notin kill_sent
           /\ srv_link[q] = <<>> /\ run_pc[q] = "await_kill"

(***************************************************************************)
(* The msg_id counters of the Server and of the Clients, over registration *)
(* followed by broadcasts: Server::broadcast takes &mut self, so it runs   *)
(* between two iterations of the accept loop, and an accept runs between   *)
(* two broadcasts. The steps that send nothing and leave the counters      *)
(* alone (Client::new returning, the accept loop of a Client) are left out.*)
(***************************************************************************)
NextBootKill ==
    \/ \E p \in Procs, name \in NetNames : ClientIntroduce(p, name)
    \/ /\ bcast = None
       /\ ServerAccept
    \/ \E p \in Procs : ClientInit(p)
    \/ \E p \in Procs : ClientConnect(p)
    \/ \E name \in NetNames : BroadcastStart(name)
    \/ BroadcastSend

SpecBootKill == InitBoot /\ [][NextBootKill]_vars

\* the messages a step wrote to the sink of p, and the hellos it sent to q
WrittenToSink(p) ==
    IF Len(srv_link'[p]) > Len(srv_link[p]) THEN {srv_link'[p][Len(srv_link'[p])]} ELSE {}
WrittenToPeer(q) ==
    IF Len(hellos'[q]) > Len(hellos[q]) THEN {hellos'[q][Len(hellos'[q])]} ELSE {}

\* C24: each message a sender writes carries the value its counter had
\* before the send, and the send advances the counter by one (Client::connect
\* sends the ConnectionMsg and "Hi", two sends); a counter changes in no other
\* step, except that a node starts its counter one above the msg_id of the
\* registration message it read. So the msg_ids of one sender strictly
\* increase in send order.
C24_MsgIdStrictlyIncreasing ==
    [][/\ \A p \in Procs : \A m \in WrittenToSink(p) :
             m.msg_id = srv_msg_id /\ srv_msg_id' = srv_msg_id + 1
       /\ (\A p \in Procs : WrittenToSink(p) = {}) => srv_msg_id' = srv_msg_id
       /\ \A q \in Procs : \A h \in WrittenToPeer(q) :
             /\ h.conn_msg.msg_id = msg_id[h.from]
             /\ msg_id'[h.from] = msg_id[h.from] + 2
       /\ \A p \in Procs :
             \/ msg_id'[p] = msg_id[p]
             \/ \E q \in Procs : \E h \in WrittenToPeer(q) : h.from = p
             \/ /\ pc[p] = "introduced" /\ pc'[p] = "connecting"
                /\ msg_id'[p] = Head(srv_link[p]).msg_id + 1
      ]_vars

\* a node has sent ConnectionMsgs to two peers, and the Server has sent it a
\* Kill after the registration messages
C24_Witness ==
    \E p \in Procs :
      /\ Cardinality({q \in Procs : \E i \in 1..Len(hellos[q]) : hellos[q][i].from = p}) = 2
      /\ \E i \in 1..Len(srv_link[p]) :
           srv_link[p][i].msg.kind = "Kill" /\ srv_link[p][i].msg_id >= NumProcs

(***************************************************************************)
(* Properties of a Get served before the key was produced (SpecKV).        *)
(***************************************************************************)
\* the number of frames of the kind for K on the link a -> b
FramesOnLink(a, b, kind, K) ==
    Cardinality({i \in 1..Len(links[<<a, b>>]) :
                    links[<<a, b>>][i].kind = kind /\ links[<<a, b>>][i].key = K})
\* the number of tasks of node h serving a Get of node r for K
TasksServing(h, r, K) == Cardinality({t \in tasks[h] : t.key = K /\ t.to = KvId(r)})

\* C22: a Get for K that reaches K.home before the put is not dropped: for
\* every remote wait_and_get in flight there is exactly one of its Get frame,
\* the task serving it, the Value frame answering it, or the completed
\* one-shot slot, and none of these without a call; a serving task is parked
\* exactly while K is absent, and the answer carries the stored value. The
\* link is not blocked: whenever a frame is at the head of a link (and, for
\* a Blob, the channel has room) the inbound task can dispatch it, parked
\* Get or not.
C22_ParkedGetServed ==
    /\ \A r \in Procs, K \in Keys :
         KvId(r) # KeyHome(K) =>
           LET h == HomeProc(K)
           IN /\ FramesOnLink(r, h, "Get", K) + TasksServing(h, r, K)
                   + FramesOnLink(h, r, "Value", K)
                   + (IF oneshot[r] # "empty" THEN 1 ELSE 0)
                 = (IF call[r] # None /\ call[r].key = K THEN 1 ELSE 0)
              /\ \A t \in tasks[h] :
                    t.key = K => (Parked(h, K, t.to) <=> K \notin DOMAIN data[h])
              /\ \A i \in 1..Len(links[<<h, r>>]) :
                    links[<<h, r>>][i].kind = "Value" =>
                       /\ links[<<h, r>>][i].key \in DOMAIN data[h]
                       /\ links[<<h, r>>][i].bytes = data[h][links[<<h, r>>][i].key]
    /\ \A a, b \in Procs :
         (/\ links[<<a, b>>] # <<>>
          /\ Head(links[<<a, b>>]).kind = "Blob" => Len(blobs[b]) < BlobCapacity)
            => ENABLED Deliver(a, b)

\* the Get of node r is parked at the home node while a frame that r sent
\* after it (the Value of a put) is at the head of the same link
C22_Witness ==
    \E r \in Procs, K \in Keys :
      LET h == HomeProc(K)
      IN /\ KvId(r) # KeyHome(K)
         /\ TasksServing(h, r, K) = 1
         /\ Parked(h, K, KvId(r))
         /\ links[<<r, h>>] # <<>>
         /\ Head(links[<<r, h>>]).kind = "Value"

(***************************************************************************)
(* Properties of concurrent wait_and_get calls of one node (SpecKV2).      *)
(***************************************************************************)
\* the callers of node n suspended in a wait_and_get on K whose one-shot slot
\* has not been completed
Awaiting(n, K) ==
    {c \in {1} : call[n] # None /\ call[n].key = K /\ oneshot[n] = "empty"}
       \cup {c \in {2} : call2[n] # None /\ call2[n].key = K /\ oneshot2[n] = "empty"}

\* nothing is on its way between the nodes and no Get is being served
Quiet ==
    /\ \A e \in Procs \X Procs : links[e] = <<>>
    /\ \A h \in Procs : tasks[h] = {}

\* C23: when two wait_and_get calls on the same remote key are in flight on
\* one node, each returns the value once the home node has it: when the home
\* node holds K and every frame and served Get has been handled, no caller
\* is still parked; and the Value frame answering a Get always completes a
\* pending record, so none is stored into the data of the requester.
C23_ConcurrentWaitsAllReturn ==
    \A n \in Procs, K \in Keys :
      KvId(n) # KeyHome(K) =>
         /\ (Quiet /\ K \in DOMAIN data[HomeProc(K)]) => Awaiting(n, K) = {}
         /\ K \notin DOMAIN data[n]

=============================================================================
